---- MODULE Spec2Model ----
(***************************************************************************)
(* The repository-grid scan controller of yas-starrail                     *)
(* (scanner_controller/repository_layout/scan_logic.rs) as a state         *)
(* machine: the coroutine of get_generator, with wait_until_switched,      *)
(* scroll_rows, scroll_one_row and align_row stepped at the points where   *)
(* they read the environment (the interrupt poll, a captured frame, the    *)
(* result of an input call).                                               *)
(*                                                                         *)
(* Numbers: usize/u32 values are naturals (no value of the model comes     *)
(* near the width); the two f64 averages are exact rationals <<num, den>>  *)
(* in lowest terms; time is counted in polls of the switch detector (one   *)
(* capture = one unit, max_wait_switch_item in the same unit).             *)
(***************************************************************************)
EXTENDS Integers, Sequences, FiniteSets, TLC

VARIABLES
    cfg,                \* item_count, grid, config and window descriptor of the run
    pc,                 \* control point of the coroutine
    \* locals of the coroutine (get_generator)
    scanned_row, scanned_count, start_row, row, col,
    \* fields of StarRailRepositoryScanController
    pool, initial_flag, scrolled_rows, avg_scroll_one_row, avg_switch_time,
    self_scanned_count,
    \* locals of the call in progress: wait_until_switched, scroll_rows,
    \* scroll_one_row, align_row
    elapsed, diff_flag, rows_left, state, count, attempt,
    \* what the caller and the mock devices observe
    yields, result, obs

genVars  == <<scanned_row, scanned_count, start_row, row, col>>
selfVars == <<pool, initial_flag, scrolled_rows, avg_scroll_one_row,
              avg_switch_time, self_scanned_count>>
callVars == <<elapsed, diff_flag, rows_left, state, count, attempt>>
vars     == <<cfg, pc, genVars, selfVars, callVars, yields, result, obs>>

--------------------------------------------------------------------------
(* Bounds of the model *)

MaxItems  == 4      \* item_count of the small grids: 0..MaxItems
MaxPolled == 2      \* item_count of the small grids whose switch detector polls: 0..MaxPolled
MaxGrid   == 2      \* visible rows and columns of the small grids: 1..MaxGrid
MaxRowCap == 2      \* config.max_row of the small grids: 0..MaxRowCap, or no cap
MaxWait   == 2      \* max_wait_switch_item, in polls: 0..MaxWait
MaxSettle == 3      \* the flag strip finishes a row within MaxSettle ticks, or never in that call
MaxTick   == 2      \* clock units between two readings of the switch wait: 1..MaxTick
CalibTicks == 4     \* the same, in the runs that calibrate the batch scroll
MaxFlagRows == 3    \* flag_rect.height of the flag checks taken alone: 1..MaxFlagRows
MaxRelics   == 3    \* relics in a slice handed to the export taken alone: 0..MaxRelics

(* Program constants *)

max_scroll      == 25   \* scroll_one_row
max_align_Eleven == 10 + 1  \* mutant: one more attempt
max_align       == 10   \* align_row
bootstrap_rows  == 5    \* scroll_rows: scrolled_rows >= 5
flag_threshold  == 10   \* check_flag: color_distance < 10
undershoot      == 3    \* estimate_scroll_length: - 3.0

--------------------------------------------------------------------------
(* Arithmetic helpers *)

Min(a, b) == IF a < b THEN a ELSE b
Max(a, b) == IF a > b THEN a ELSE b
Abs(a)    == IF a < 0 THEN -a ELSE a

RECURSIVE Gcd(_, _)
Gcd(a, b) == IF b = 0 THEN a ELSE Gcd(b, a % b)

\* a rational in lowest terms, den > 0
Rat(n, d) == LET g == Gcd(Abs(n), d) IN <<n \div g, d \div g>>
Zero      == <<0, 1>>

--------------------------------------------------------------------------
(* Captured frames *)

\* what a capture returns: an image, or Err from capture_rect / capture_relative_to
Captured(img) == [err |-> FALSE, img |-> img]
CaptureError  == [err |-> TRUE, img |-> <<>>]

\* RGB pixels and flag strips (one pixel per scanline of flag_rect, column 0)
Dark   == <<0, 0, 0>>
Grey   == <<3, 3, 3>>
Light  == <<9, 9, 9>>
Strips == { <<Dark, Light>>, <<Grey, Dark>>, <<Light, Dark>> }

\* raw RGB buffers of pool_rect
PoolImages == { <<0, 0, 0>>, <<0, 7, 7>>, <<1, 0, 0>>, <<1, 0, 0, 0, 0, 0>> }

\* calc_pool: the sum of the red channel of a raw RGB buffer
RECURSIVE SumRed(_, _)
SumRed(raw, n) == IF n = 0 THEN 0 ELSE SumRed(raw, n - 1) + raw[(n - 1) * 3 + 1]
calc_pool(raw) == SumRed(raw, Len(raw) \div 3)

\* yas::utils::color_distance: sum of the absolute channel differences
color_distance(a, b) == Abs(a[1] - b[1]) + Abs(a[2] - b[2]) + Abs(a[3] - b[3])

\* mutant: a scanline at the threshold counts as matching
check_flag_Inclusive(reference, cap) ==
    IF cap.err THEN "Err"
    ELSE IF \E y \in 1..Len(reference) :
                color_distance(reference[y], cap.img[y]) <= flag_threshold
         THEN "Ok"
         ELSE "Err"

\* mutant: the first scanline is skipped
check_flag_SkipFirst(reference, cap) ==
    IF cap.err THEN "Err"
    ELSE IF \E y \in 2..Len(reference) :
                color_distance(reference[y], cap.img[y]) < flag_threshold
         THEN "Ok"
         ELSE "Err"

\* check_flag on a captured strip: Ok iff some scanline is within the threshold
\* of the reference; a failed capture is an Err like a changed strip
check_flag(reference, cap) ==
    IF cap.err THEN "Err"
    ELSE IF \E y \in 1..Len(reference) :
                color_distance(reference[y], cap.img[y]) < flag_threshold
         THEN "Ok"
         ELSE "Err"

\* mutant: check_flag takes the captured strip as the new reference
FlagAfterCheck_Resample(reference, cap) == IF cap.err THEN reference ELSE cap.img
\* check_flag(&self) reads initial_flag and leaves it as it was
FlagAfterCheck(reference, cap) == reference

--------------------------------------------------------------------------
(* The run's inputs *)

Platforms == {"windows", "linux", "macos"}

\* window origin, scan_margin_pos, item_gap_size and item_size, in half pixels
\* (x: ox, mx, gw, sw; y: oy, my, gh, sh)
Geometry(o, m, g, z) ==
    [ox |-> o[1], oy |-> o[2], mx |-> m[1], my |-> m[2],
     gw |-> g[1], gh |-> g[2], sw |-> z[1], sh |-> z[2]]

DefaultGeometry == Geometry(<<0, 0>>, <<20, 30>>, <<4, 6>>, <<40, 50>>)

Config(n, r, c, m, cloud, plat, w, s) ==
    [item_count |-> n, row |-> r, col |-> c, max_row |-> m, is_cloud |-> cloud,
     platform |-> plat, max_wait |-> w, settle |-> s, geom |-> DefaultGeometry]

\* max_row values: the caps 0..MaxRowCap and one that never binds
RowCaps(n) == (0..MaxRowCap) \cup {n + 1}

\* small grids on the driver of src/, in cloud mode: every grid and cap
WalkGrids ==
    UNION { { Config(n, r, c, m, TRUE, "windows", 0, MaxSettle) :
                r \in 1..MaxGrid, c \in 1..MaxGrid, m \in RowCaps(n) } :
            n \in 0..MaxItems }

\* the same grids with the switch detector polling, max_row never binding
WaitGrids ==
    { Config(n, r, c, n + 1, FALSE, "windows", w, MaxSettle) :
        n \in 0..MaxPolled, r \in 1..MaxGrid, c \in 1..MaxGrid, w \in 0..MaxWait }

\* the same grids on the other platforms, in cloud mode, max_row never binding
PlatformGrids ==
    { Config(n, r, c, n + 1, TRUE, plat, 0, MaxSettle) :
        n \in 0..MaxItems, r \in 1..MaxGrid, c \in 1..MaxGrid,
        plat \in Platforms \ {"windows"} }

\* a one-cell grid long enough to leave the bootstrap phase of scroll_rows,
\* with rows of up to CalibTicks ticks
DeepGrids ==
    { Config(n, 1, 1, n + 1, TRUE, plat, 0, CalibTicks) :
        n \in {bootstrap_rows + 2}, plat \in Platforms }

\* the end-to-end scenarios of the 4 x 5 grid: one screen, two screens
ScenarioGrids ==
    { Config(n, 4, 5, n + 1, cloud, "windows", 0, MaxSettle) :
        n \in {20, 27}, cloud \in BOOLEAN }

\* the calibration scenario: a one-column grid of five visible rows whose rows
\* take up to seven wheel ticks; five rows scrolled one by one, then a batch of
\* one or two rows
CalibrationGrids ==
    { Config(n, 5, 1, n + 1, TRUE, "windows", 0, 7) : n \in {11, 12} }

\* windows at a negative or positive origin, with items of whole, half and
\* quarter-pixel centres
Geometries ==
    { Geometry(o, <<3, 5>>, <<1, 2>>, z) :
        o \in {<<-61, -40>>, <<0, 7>>}, z \in {<<8, 10>>, <<9, 7>>, <<6, 11>>} }

\* a 2 x 2 grid of four items under each of these geometries
GeometryGrids ==
    { [Config(4, 2, 2, 5, TRUE, "windows", 0, MaxSettle) EXCEPT !.geom = g] :
        g \in Geometries }

\* a one-column grid of three visible rows and nine items: the second
\* scroll_rows(3) is entered with three rows scrolled and passes the fifth
CrossingGrids ==
    { Config(9, 3, 1, 10, TRUE, "windows", 0, MaxSettle) }

Configs == WalkGrids \cup WaitGrids \cup PlatformGrids \cup DeepGrids \cup ScenarioGrids
             \cup CalibrationGrids \cup GeometryGrids \cup CrossingGrids

--------------------------------------------------------------------------
(* get_generator: the values computed before the walk *)

CeilDiv(a, b) == (a + b - 1) \div b

total_row    == CeilDiv(cfg.item_count, cfg.col)
\* mutant: the remainder is used even when it is 0
last_row_col_NoWrap == cfg.item_count % cfg.col
last_row_col == IF cfg.item_count % cfg.col = 0 THEN cfg.col
                ELSE cfg.item_count % cfg.col
\* let row = object.borrow().row.min(total_row)
RowLimit     == Min(cfg.row, total_row)
\* mutant: the last row walked like a full one
RowItemCount_AlwaysFull(sr) == cfg.col
\* row_item_count of the row walked when scanned_row = sr
RowItemCount(sr) == IF sr = total_row - 1 THEN last_row_col ELSE cfg.col
\* if scanned_row >= config.max_row as usize
\* mutant: the walk stops one row late
ReachedMaxRow_Late(sr) == sr > cfg.max_row
ReachedMaxRow(sr) == sr >= cfg.max_row
\* mutant: the walk restarts at the top of the screen after a scroll
StartRow_Top(scroll_row) == 0
\* start_row = object.borrow().row - scroll_row
StartRow(scroll_row) == cfg.row - scroll_row
\* object.borrow_mut().scanned_count = scanned_count
\* mutant: the count stored after a yield is one more than the local count
StoredCount_Next(sc) == sc + 1
\* mutant: the stored count is advanced instead of overwritten
StoredCount_Add(sc) == self_scanned_count + 1
StoredCount(sc) == sc
\* match scroll_rows(..): what the coroutine returns for a ScrollResult
\* mutant: every scroll result other than success is an error
GeneratorResult_AllErr(scroll_result) == "Err"
GeneratorResult(scroll_result) ==
    CASE scroll_result = "TimeLimitExceeded" -> "Err"
      [] scroll_result = "Interrupt" -> "Interrupted"

\* f64 as i32 of n / d, d > 0: truncation towards zero
TruncDiv(n, d) == IF n >= 0 THEN n \div d ELSE -((-n) \div d)

\* mutant: the column moves the cursor down and the row moves it right
move_to_Transposed(r, c) ==
    LET g == cfg.geom IN
    << TruncDiv(2 * g.ox + 2 * g.mx + 2 * (g.gw + g.sw) * r + g.sw, 4),
       TruncDiv(2 * g.oy + 2 * g.my + 2 * (g.gh + g.sh) * c + g.sh, 4) >>

\* move_to(row, col): the target handed to mouse_move_to, in pixels
\* left = origin.x + margin.x + (gap.width + size.width) * col + size.width / 2
\* top  = origin.y + margin.y + (gap.height + size.height) * row + size.height / 2
move_to(r, c) ==
    LET g == cfg.geom IN
    << TruncDiv(2 * g.ox + 2 * g.mx + 2 * (g.gw + g.sw) * c + g.sw, 4),
       TruncDiv(2 * g.oy + 2 * g.my + 2 * (g.gh + g.sh) * r + g.sh, 4) >>

--------------------------------------------------------------------------
(* The devices *)

\* which input call of a step fails ("none": all succeed). WindowsSystemControl
\* always returns Ok; the other drivers are fallible.
InputFailure(calls) == IF cfg.platform = "windows" THEN {"none"}
                       ELSE {"none"} \cup calls

FlagCaptures == { Captured(s) : s \in Strips } \cup {CaptureError}
PoolCaptures == { Captured(i) : i \in PoolImages } \cup {CaptureError}

\* now.elapsed(): the time that passes between two readings of the clock in the
\* loop of wait_until_switched (a capture lies between them)
ClockTicks == 1..MaxTick

\* the flag strip finishes a row within cfg.settle ticks of a scroll_one_row call
\* or not at all in that call: after cfg.settle ticks only observations that
\* leave the (state, check_flag) machine where it is
FlagObs(c, st) ==
    IF c <= cfg.settle THEN FlagCaptures
    ELSE { f \in FlagCaptures :
             check_flag(initial_flag, f) = (IF st = 0 THEN "Ok" ELSE "Err") }

--------------------------------------------------------------------------
(* Initial state: StarRailRepositoryScanController::new, get_generator called *)

NoCell == <<-1, -1>>

Obs0 == [cause |-> "none",          \* why the run ended
         rmb_seen |-> FALSE,        \* result of the latest is_rmb_down()
         wait_result |-> "none",    \* how wait_until_switched returned in the current advance
         list_top |-> 0,            \* rows the list was asked to scroll so far
         scroll_arg |-> -1,         \* argument of the latest scroll_rows call
         last_cell |-> NoCell,      \* target of the latest move_to of the walk
         prev_cell |-> NoCell,      \* the one before it on the same screen
         poll_at |-> "none",        \* loop of the latest is_rmb_down(): "walk", "scroll"
         item |-> -1,               \* list index of the latest clicked cell
         clicks |-> 0,              \* clicks of the walk
         init_clicks |-> 0,         \* clicks before the walk
         screen_clicks |-> 0,       \* clicks of the walk since the latest scroll
         adv_clicks |-> 0,          \* clicks, polls, waits of the current advance
         adv_polls |-> 0,
         adv_waits |-> 0,
         adv_wheel |-> FALSE,       \* a wheel event was sent in the current advance
         wheel |-> FALSE,           \* a wheel event was sent in the run
         call_ticks |-> 0,          \* wheel events of the current scroll_one_row call
         batch_ticks |-> 0,         \* wheel events of the latest batch of scroll_rows
         align_ticks |-> 0,         \* wheel events of the latest align_row call
         flag_writes |-> 0,         \* assignments to initial_flag
         row_ticks |-> 0,           \* sum of the counts passed to update_avg_row
         switches |-> 0,            \* switches detected by wait_until_switched
         switch_ms |-> 0,           \* sum of their elapsed times
         cursor |-> <<0, 0>>,       \* target of the latest mouse_move_to
         entry_rows |-> 0]          \* scrolled_rows at the entry of the latest scroll_rows

Init ==
    /\ cfg \in Configs
    /\ pc = "start"
    /\ scanned_row = 0 /\ scanned_count = 0 /\ start_row = 0
    /\ row = 0 /\ col = 0
    /\ pool = 0
    /\ initial_flag = <<Dark, Dark>>
    /\ scrolled_rows = 0
    /\ avg_scroll_one_row = Zero
    /\ avg_switch_time = Zero
    /\ self_scanned_count = 0
    /\ elapsed = 0 /\ diff_flag = FALSE
    /\ rows_left = 0 /\ state = 0 /\ count = 0 /\ attempt = 0
    /\ yields = 0
    /\ result = "none"
    /\ obs = Obs0

--------------------------------------------------------------------------
(* How an advance ends *)

\* return from the coroutine (or a panic of an unwrap)
Return(res, o, why) ==
    /\ pc' = "done"
    /\ result' = res
    /\ obs' = [o EXCEPT !.cause = why]

\* mutant: the coroutine suspends twice for a cell
Yield_Twice(o, how) ==
    /\ pc' = "yield"
    /\ yields' = yields + 2
    /\ obs' = [o EXCEPT !.wait_result = how, !.adv_waits = @ + 1]

\* mutant: the suspension may or may not be counted
Yield_Racy(o, how) ==
    /\ pc' = "yield"
    /\ yields' \in {yields, yields + 1}
    /\ obs' = [o EXCEPT !.wait_result = how, !.adv_waits = @ + 1]

\* yield: suspend after the click and the wait on the cell
Yield(o, how) ==
    /\ pc' = "yield"
    /\ yields' = yields + 1
    /\ obs' = [o EXCEPT !.wait_result = how, !.adv_waits = @ + 1]

\* mutant: a timed-out wait ends the run instead of yielding
WaitReturns_Abort(o, how) ==
    IF how = "timeout"
    THEN /\ pc' = "done"
         /\ obs' = [o EXCEPT !.cause = "switch_timeout"]
         /\ UNCHANGED yields
    ELSE Yield(o, how)

\* let _ = wait_until_switched(); yield: whatever the wait returned
WaitReturns(o, how) == Yield(o, how)

\* mutant: the loop is entered while scanned_count <= item_count
WhileHead_Inclusive(sc, st, o) ==
    IF sc <= cfg.item_count
    THEN IF st < RowLimit
         THEN /\ pc' = "poll" /\ row' = st /\ col' = 0
              /\ result' = result /\ obs' = o
         ELSE /\ pc' = "screen_end" /\ UNCHANGED <<row, col>>
              /\ result' = result /\ obs' = o
    ELSE /\ Return("Finished", o, "none") /\ UNCHANGED <<row, col>>

\* 'outer: while scanned_count < item_count, then '_row: for row in start_row..row,
\* reached with scanned_count = sc and start_row = st
WhileHead(sc, st, o) ==
    IF sc < cfg.item_count
    THEN IF st < RowLimit
         THEN /\ pc' = "poll" /\ row' = st /\ col' = 0
              /\ result' = result /\ obs' = o
         ELSE /\ pc' = "screen_end" /\ UNCHANGED <<row, col>>
              /\ result' = result /\ obs' = o
    ELSE /\ Return("Finished", o, "none") /\ UNCHANGED <<row, col>>

--------------------------------------------------------------------------
(* get_generator, first advance up to the loop: move_to(0, 0), click, sleep,
   sample_initial_color *)

StartStep(fail, cap) ==
    /\ pc = "start"
    /\ LET o1 == [obs EXCEPT !.init_clicks = IF fail = "none" THEN 1 ELSE 0,
                               !.cursor = IF fail = "move" THEN @ ELSE move_to(0, 0)] IN
         IF fail # "none"
         THEN \* mouse_move_to(..).unwrap() / mouse_click().unwrap()
              /\ Return("Panic", o1, "input")
              /\ UNCHANGED <<row, col, initial_flag>>
         ELSE IF cap.err
         THEN \* sample_initial_color().unwrap()
              /\ Return("Panic", o1, "capture")
              /\ UNCHANGED <<row, col, initial_flag>>
         ELSE /\ initial_flag' = cap.img
              /\ WhileHead(0, 0, [o1 EXCEPT !.flag_writes = @ + 1])
    /\ UNCHANGED <<cfg, scanned_row, scanned_count, start_row, pool, scrolled_rows,
                   avg_scroll_one_row, avg_switch_time, self_scanned_count,
                   callVars, yields>>

Start ==
    \E fail \in InputFailure({"move", "click"}), cap \in FlagCaptures :
      StartStep(fail, cap)

(* '_col loop head: the interrupt poll, then move_to(row, col), click and the
   entry of wait_until_switched *)

\* mutant: the cloud window is polled like a local one
CloudBypass_Never == FALSE
\* if self.game_info.is_cloud: sleep and return Ok
CloudBypass == cfg.is_cloud

PollStep(rmb, fail) ==
    /\ pc = "poll"
    /\ LET o1 == [obs EXCEPT !.rmb_seen = rmb, !.adv_polls = @ + 1,
                               !.poll_at = "walk"]
             o2 == [o1 EXCEPT !.last_cell = <<row, col>>,
                              !.cursor = move_to(row, col),
                              !.prev_cell = IF obs.screen_clicks = 0 THEN NoCell
                                            ELSE obs.last_cell,
                              !.item = (obs.list_top + row) * cfg.col + col,
                              !.clicks = @ + 1,
                              !.adv_clicks = @ + 1,
                              !.screen_clicks = @ + 1]
         IN
         IF rmb
         THEN /\ Return("Interrupted", o1, "poll")
              /\ UNCHANGED <<yields, elapsed, diff_flag>>
         ELSE IF scanned_count > cfg.item_count
         THEN /\ Return("Finished", o1, "none")
              /\ UNCHANGED <<yields, elapsed, diff_flag>>
         ELSE IF fail # "none"
         THEN /\ Return("Panic", o1, "input")
              /\ UNCHANGED <<yields, elapsed, diff_flag>>
         ELSE IF CloudBypass
         THEN \* wait_until_switched: sleep(cloud_wait_switch_item), Ok
              /\ WaitReturns(o2, "cloud")
              /\ UNCHANGED <<result, elapsed, diff_flag>>
         ELSE /\ pc' = "wait"
              /\ elapsed' = 0
              /\ diff_flag' = FALSE
              /\ obs' = o2
              /\ UNCHANGED <<result, yields>>
    /\ UNCHANGED <<cfg, genVars, selfVars, rows_left, state, count, attempt>>

Poll ==
    \E rmb \in BOOLEAN, fail \in InputFailure({"move", "click"}) :
      PollStep(rmb, fail)

(* wait_until_switched, one turn of its loop *)

\* avg_switch_time after a detected switch: (avg * scanned_count + elapsed) / (scanned_count + 1)
SwitchAverage(avg, n, e) == Rat(avg[1] * n + e * avg[2], avg[2] * (n + 1))

\* mutant: the wait has no time limit
TimedOut_Never == FALSE
\* mutant: the wait gives up one poll before the limit
TimedOut_Early == elapsed + 1 >= cfg.max_wait
\* while now.elapsed()?.as_millis() < max_wait_switch_item fails
TimedOut == elapsed >= cfg.max_wait

\* mutant: the clock is restarted at every turn of the loop
ElapsedAfter_Restarted(e, tick) == 0
\* now.elapsed() at the next reading, `tick` after a reading of e
ElapsedAfter(e, tick) == e + tick

\* mutant: samples one apart count as equal
PoolDiffers_Coarse(p, stored) == Abs(p - stored) > 1
\* (pool - self.pool).abs() > 0.000001, on sums of bytes
PoolDiffers(p, stored) == Abs(p - stored) > 0

WaitPollStep(cap, tick) ==
    /\ pc = "wait"
    /\ IF TimedOut
       THEN \* Err("Wait until switched failed")
            /\ WaitReturns(obs, "timeout")
            /\ UNCHANGED <<pool, avg_switch_time, self_scanned_count, elapsed, diff_flag>>
       ELSE IF cap.err
            THEN \* capture_relative_to(..)? returns the Err
                 /\ WaitReturns(obs, "capture")
                 /\ UNCHANGED <<pool, avg_switch_time, self_scanned_count, elapsed,
                                diff_flag>>
            ELSE LET p == calc_pool(cap.img) IN
                 IF PoolDiffers(p, pool)
                 THEN /\ pool' = p
                      /\ diff_flag' = TRUE
                      /\ elapsed' = ElapsedAfter(elapsed, tick)
                      /\ UNCHANGED <<pc, yields, obs, avg_switch_time, self_scanned_count>>
                 ELSE IF diff_flag
                 THEN /\ avg_switch_time' =
                            SwitchAverage(avg_switch_time, self_scanned_count,
                                          ElapsedAfter(elapsed, tick))
                      /\ self_scanned_count' = self_scanned_count + 1
                      /\ elapsed' = ElapsedAfter(elapsed, tick)
                      /\ WaitReturns([obs EXCEPT !.switches = @ + 1,
                                                  !.switch_ms = @ + ElapsedAfter(elapsed, tick)],
                                     "ok")
                      /\ UNCHANGED <<pool, diff_flag>>
                 ELSE /\ elapsed' = ElapsedAfter(elapsed, tick)
                      /\ UNCHANGED <<pc, yields, obs, pool, diff_flag, avg_switch_time,
                                     self_scanned_count>>
    /\ UNCHANGED <<cfg, genVars, initial_flag, scrolled_rows, avg_scroll_one_row,
                   rows_left, state, count, attempt, result>>

WaitPoll ==
    \E cap \in PoolCaptures, tick \in ClockTicks : WaitPollStep(cap, tick)

(* the caller resumes the coroutine: the code after `yield` up to the next
   loop head, the `break 'outer`, or the end of the '_row loop *)

Resume ==
    /\ pc = "yield"
    /\ scanned_count' = scanned_count + 1
    /\ self_scanned_count' = StoredCount(scanned_count + 1)
    /\ LET o1 == [obs EXCEPT !.adv_clicks = 0, !.adv_polls = 0, !.adv_waits = 0,
                             !.adv_wheel = FALSE, !.wait_result = "none"]
       IN
       IF col + 1 < RowItemCount(scanned_row)
       THEN /\ pc' = "poll" /\ col' = col + 1
            /\ obs' = o1
            /\ UNCHANGED <<row, scanned_row, result>>
       ELSE /\ scanned_row' = scanned_row + 1
            /\ IF ReachedMaxRow(scanned_row + 1)
               THEN /\ Return("Finished", o1, "max_row")
                    /\ UNCHANGED <<row, col>>
               ELSE IF row + 1 < RowLimit
               THEN /\ pc' = "poll" /\ row' = row + 1 /\ col' = 0
                    /\ obs' = o1
                    /\ UNCHANGED result
               ELSE /\ pc' = "screen_end"
                    /\ obs' = o1
                    /\ UNCHANGED <<row, col, result>>
    /\ UNCHANGED <<cfg, start_row, pool, initial_flag, scrolled_rows, avg_scroll_one_row,
                   avg_switch_time, callVars, yields>>

--------------------------------------------------------------------------
(* The scroll calibrator *)

\* mutant: the new count is averaged with the old average, unweighted
update_avg_row_Unweighted(avg, n, c) ==
    <<Rat(avg[1] + c * avg[2], 2 * avg[2]), n + 1>>
\* update_avg_row: <<avg_scroll_one_row, scrolled_rows>> after a row of `c` ticks
update_avg_row(avg, n, c) == <<Rat(avg[1] * n + c * avg[2], avg[2] * (n + 1)), n + 1>>

\* f64::round of num/den: to the nearest integer, halves away from zero
Round(num, den) == IF num >= 0 THEN (2 * num + den) \div (2 * den)
                   ELSE -((2 * (-num) + den) \div (2 * den))

\* mutant: the estimate without the undershoot
estimate_scroll_length_NoBias(avg, k) == Max(0, Round(avg[1] * k, avg[2]))
\* estimate_scroll_length: max(0, round(avg_scroll_one_row * count - 3))
estimate_scroll_length(avg, k) ==
    Max(0, Round(avg[1] * k - undershoot * avg[2], avg[2]))

\* mutant: the batch path is never taken
BatchPhase_Never == FALSE
\* mutant: the batch path is taken one row early
BatchPhase_Early == cfg.platform # "macos" /\ scrolled_rows >= bootstrap_rows - 1
\* scroll_rows takes the batch path
BatchPhase == cfg.platform # "macos" /\ scrolled_rows >= bootstrap_rows

\* remain, remain_row and scroll_row at the end of the '_row loop
ScrollRowCount == Min(CeilDiv(cfg.item_count - scanned_count, cfg.col), cfg.row)

\* the wheel tick of the batch at which the driver fails (0: none fails)
BatchFailPoints ==
    IF BatchPhase /\ cfg.platform # "windows"
    THEN 0..estimate_scroll_length(avg_scroll_one_row, ScrollRowCount)
    ELSE {0}

(* end of the '_row loop: remain, scroll_row, start_row, and the entry of
   scroll_rows(scroll_row) with its batch of wheel ticks *)

ScrollRowsStep(fail_at) ==
    /\ pc = "screen_end"
    /\ fail_at \in BatchFailPoints
    /\ LET remain     == cfg.item_count - scanned_count
           remain_row == CeilDiv(remain, cfg.col)
           scroll_row == Min(remain_row, cfg.row)
           length     == estimate_scroll_length(avg_scroll_one_row, scroll_row)
           o1         == [obs EXCEPT !.scroll_arg = scroll_row,
                                     !.entry_rows = scrolled_rows]
       IN
       /\ start_row' = StartRow(scroll_row)
       /\ IF BatchPhase
          THEN   IF fail_at > 0
                 THEN \* Err from mouse_scroll: "Scrolling failed", ScrollResult::Interrupt
                      /\ Return(GeneratorResult("Interrupt"),
                                [o1 EXCEPT !.batch_ticks = fail_at - 1,
                                           !.wheel = @ \/ (fail_at > 1),
                                           !.adv_wheel = @ \/ (fail_at > 1)],
                                "scroll_input")
                      /\ UNCHANGED <<row, col, rows_left, state, count, attempt>>
                 ELSE /\ pc' = "align"
                      /\ attempt' = 0
                      /\ obs' = [o1 EXCEPT !.batch_ticks = length,
                                           !.align_ticks = 0,
                                           !.wheel = @ \/ (length > 0),
                                           !.adv_wheel = @ \/ (length > 0)]
                      /\ UNCHANGED <<row, col, rows_left, state, count, result>>
          ELSE IF scroll_row = 0
          THEN \* for _ in 0..0: ScrollResult::Success at once
               /\ WhileHead(scanned_count, StartRow(scroll_row), o1)
               /\ UNCHANGED <<rows_left, state, count, attempt>>
          ELSE /\ pc' = "scroll"
               /\ rows_left' = scroll_row
               /\ state' = 0
               /\ count' = 0
               /\ obs' = [o1 EXCEPT !.call_ticks = 0]
               /\ UNCHANGED <<row, col, attempt, result>>
    /\ UNCHANGED <<cfg, scanned_row, scanned_count, selfVars, elapsed, diff_flag, yields>>

ScrollRows ==
    \E fail_at \in BatchFailPoints : ScrollRowsStep(fail_at)

(* scroll_one_row, one turn of its loop, inside the loop of scroll_rows *)

\* mutant: a matching strip ends the row in either state
RowSuccess_AnyState(st, chk) == chk = "Ok"
\* match (state, self.check_flag()): (1, Ok(_)) => Success
RowSuccess(st, chk) == st = 1 /\ chk = "Ok"

ScrollOneRowStep(rmb, cap) ==
    /\ pc = "scroll"
    /\ LET o1 == [obs EXCEPT !.rmb_seen = rmb, !.adv_polls = @ + 1,
                               !.poll_at = "scroll"] IN
         IF rmb
         THEN \* ScrollResult::Interrupt, passed on by scroll_rows
              /\ Return(GeneratorResult("Interrupt"), o1, "poll")
              /\ UNCHANGED <<row, col, scrolled_rows, avg_scroll_one_row, rows_left,
                             state, count, initial_flag>>
         ELSE LET sent == cfg.platform = "windows"     \* #[cfg(windows)] mouse_scroll(1, false)
                  o2   == [o1 EXCEPT !.call_ticks = IF sent THEN @ + 1 ELSE @,
                                     !.wheel = @ \/ sent,
                                     !.adv_wheel = @ \/ sent]
                  chk  == check_flag(initial_flag, cap)
                  upd  == update_avg_row(avg_scroll_one_row, scrolled_rows, count + 1)
              IN
           /\ initial_flag' = FlagAfterCheck(initial_flag, cap)
           /\ IF RowSuccess(state, chk)
              THEN \* ScrollResult::Success
                   /\ avg_scroll_one_row' = upd[1]
                   /\ scrolled_rows' = upd[2]
                   /\ IF rows_left > 1
                      THEN /\ pc' = "scroll"
                           /\ rows_left' = rows_left - 1
                           /\ state' = 0
                           /\ count' = 0
                           /\ obs' = [o2 EXCEPT !.list_top = @ + 1, !.call_ticks = 0,
                                                !.row_ticks = @ + count + 1]
                           /\ UNCHANGED <<row, col, result>>
                      ELSE \* scroll_rows returns Success; sleep(100)
                           /\ rows_left' = 0
                           /\ count' = count + 1
                           /\ state' = state
                           /\ WhileHead(scanned_count, start_row,
                                        [o2 EXCEPT !.list_top = @ + 1,
                                                   !.row_ticks = @ + count + 1,
                                                   !.screen_clicks = 0])
              ELSE /\ state' = IF state = 0 /\ chk = "Err" THEN 1 ELSE state
                   /\ count' = count + 1
                   /\ UNCHANGED <<scrolled_rows, avg_scroll_one_row, rows_left>>
                   /\ IF count + 1 < max_scroll
                      THEN /\ obs' = o2
                           /\ UNCHANGED <<pc, row, col, result>>
                      ELSE \* ScrollResult::TimeLimitExceeded: Err("翻页超时，扫描终止……")
                           /\ Return(GeneratorResult("TimeLimitExceeded"), o2,
                                     "scroll_timeout")
                           /\ UNCHANGED <<row, col>>
    /\ UNCHANGED <<cfg, scanned_row, scanned_count, start_row, pool,
                   avg_switch_time, self_scanned_count, elapsed, diff_flag, attempt,
                   yields>>

ScrollOneRow ==
    \E rmb \in BOOLEAN, cap \in FlagObs(count + 1, state) :
      ScrollOneRowStep(rmb, cap)

(* align_row, one turn of its loop, after the batch of scroll_rows *)

AlignRowStep(cap, fail) ==
    /\ pc = "align"
    /\ LET sent == fail = "none"
             o1   == [obs EXCEPT !.align_ticks = IF sent THEN @ + 1 ELSE @,
                                 !.wheel = @ \/ sent,
                                 !.adv_wheel = @ \/ sent]
             \* scroll_rows returns Skip; sleep(100)
             back(o) == WhileHead(scanned_count, start_row,
                                  [o EXCEPT !.list_top = @ + obs.scroll_arg,
                                            !.screen_clicks = 0])
         IN
      /\ initial_flag' = FlagAfterCheck(initial_flag, cap)
      /\ IF check_flag(initial_flag, cap) = "Err"
         THEN \* mouse_scroll(1, false), its result dropped where it has one
              /\ attempt' = attempt + 1
              /\ IF attempt + 1 < max_align
                 THEN /\ obs' = o1
                      /\ UNCHANGED <<pc, row, col, result>>
                 ELSE back(o1)
         ELSE /\ fail = "none"
              /\ attempt' = attempt
              /\ back(obs)
    /\ UNCHANGED <<cfg, scanned_row, scanned_count, start_row, pool, scrolled_rows,
                   avg_scroll_one_row, avg_switch_time, self_scanned_count, elapsed,
                   diff_flag, rows_left, state, count, yields>>

AlignRow ==
    \E cap \in FlagCaptures, fail \in InputFailure({"scroll"}) :
      AlignRowStep(cap, fail)

--------------------------------------------------------------------------

Next ==
    \/ Start
    \/ Poll
    \/ WaitPoll
    \/ Resume
    \/ ScrollRows
    \/ ScrollOneRow
    \/ AlignRow

Spec == Init /\ [][Next]_vars

\* the same with the coroutine's own steps taken when they can be, and the
\* caller resuming a suspended coroutine
FairSpec == Spec /\ WF_vars(Next)

--------------------------------------------------------------------------
(* check_flag taken alone: a controller whose initial_flag is any sample of a
   strip of 1..MaxFlagRows scanlines, and one call of check_flag on it *)

\* pixels at distances 0, 1, 9, 10 and more from one another
Dim         == <<4, 3, 3>>
FlagPalette == {Dark, Grey, Dim, Light}

\* the samples capture_flag can return for a flag_rect of h scanlines
FlagSamples(h) == [1..h -> FlagPalette]

FlagInit ==
    /\ cfg = Config(0, 1, 1, 1, TRUE, "windows", 0, MaxSettle)
    /\ pc = "check_flag"
    /\ \E h \in 1..MaxFlagRows : initial_flag \in FlagSamples(h)
    /\ scanned_row = 0 /\ scanned_count = 0 /\ start_row = 0
    /\ row = 0 /\ col = 0
    /\ pool = 0
    /\ scrolled_rows = 0
    /\ avg_scroll_one_row = Zero
    /\ avg_switch_time = Zero
    /\ self_scanned_count = 0
    /\ elapsed = 0 /\ diff_flag = FALSE
    /\ rows_left = 0 /\ state = 0 /\ count = 0 /\ attempt = 0
    /\ yields = 0
    /\ result = "none"
    /\ obs = Obs0

\* what the capture of flag_rect can return to this controller
FlagStripCaptures ==
    { Captured(f) : f \in FlagSamples(Len(initial_flag)) } \cup {CaptureError}

\* one call of check_flag; `result` is what it returns
CheckFlagStep(cap) ==
    /\ pc = "check_flag"
    /\ pc' = "checked"
    /\ result' = check_flag(initial_flag, cap)
    /\ initial_flag' = FlagAfterCheck(initial_flag, cap)
    /\ UNCHANGED <<cfg, genVars, pool, scrolled_rows, avg_scroll_one_row,
                   avg_switch_time, self_scanned_count, callVars, yields, obs>>

CheckFlag == \E cap \in FlagStripCaptures : CheckFlagStep(cap)

FlagSpec == FlagInit /\ [][CheckFlag]_vars

--------------------------------------------------------------------------
(* The March7th export (export/relic/march7th.rs), taken alone *)

RelicSlots == {"Head", "Hands", "Body", "Feet", "PlanarSphere", "LinkRope"}

\* the six lists of March7thFormat
FormatLists == {"head", "hands", "body", "feet", "sphere", "rope"}

\* a scanned relic; of its fields only the slot decides where it is exported
StarRailRelic(s, l) == [slot |-> s, level |-> l]

\* the slices `new` is called with: up to MaxRelics relics of any slot
RelicSlices ==
    UNION { [1..n -> { StarRailRelic(s, 15) : s \in RelicSlots }] : n \in 0..MaxRelics }

ArmOf_SphereAsRope(slot) ==
    CASE slot = "Head"         -> "head"
      [] slot = "Hands"        -> "hands"
      [] slot = "Body"         -> "body"
      [] slot = "Feet"         -> "feet"
      [] slot = "PlanarSphere" -> "rope"
      [] slot = "LinkRope"     -> "rope"

\* the arm of `match relic.slot`: the list the relic is pushed to
ArmOf(slot) ==
    CASE slot = "Head"         -> "head"
      [] slot = "Hands"        -> "hands"
      [] slot = "Body"         -> "body"
      [] slot = "Feet"         -> "feet"
      [] slot = "PlanarSphere" -> "sphere"
      [] slot = "LinkRope"     -> "rope"

\* the six empty vectors `new` starts from
EmptyLists == [f \in FormatLists |-> <<>>]

\* `for relic in results.iter()` from relic i on; a list holds references into
\* the slice, written as positions of the slice
RECURSIVE PushFrom(_, _, _)
PushFrom(results, i, lists) ==
    IF i > Len(results) THEN lists
    ELSE PushFrom(results, i + 1,
                  [lists EXCEPT ![ArmOf(results[i].slot)] = Append(@, i)])

\* March7thFormat::new
March7thFormat_new(results) ==
    [version |-> "1", lists |-> PushFrom(results, 1, EmptyLists)]

ExportInit ==
    /\ cfg \in { [results |-> rs] : rs \in RelicSlices }
    /\ pc = "new"
    /\ initial_flag = <<>>
    /\ scanned_row = 0 /\ scanned_count = 0 /\ start_row = 0
    /\ row = 0 /\ col = 0
    /\ pool = 0
    /\ scrolled_rows = 0
    /\ avg_scroll_one_row = Zero
    /\ avg_switch_time = Zero
    /\ self_scanned_count = 0
    /\ elapsed = 0 /\ diff_flag = FALSE
    /\ rows_left = 0 /\ state = 0 /\ count = 0 /\ attempt = 0
    /\ yields = 0
    /\ result = "none"
    /\ obs = Obs0

\* one call of March7thFormat::new; `result` is the value it returns
NewFormat ==
    /\ pc = "new"
    /\ pc' = "built"
    /\ result' = March7thFormat_new(cfg.results)
    /\ UNCHANGED <<cfg, genVars, selfVars, callVars, yields, obs>>

ExportSpec == ExportInit /\ [][NewFormat]_vars

--------------------------------------------------------------------------
(* Properties *)

Done     == pc = "done"
Finished == Done /\ result = "Finished"

\* the run ended on a true interrupt poll, a scroll timeout or a device failure
Disturbed == obs.cause \in {"poll", "scroll_timeout", "scroll_input", "input", "capture"}

\* yields of an undisturbed run: the walk always finishes its first row
ExpectedYields == Min(cfg.item_count, Max(cfg.max_row, 1) * cfg.col)

(* C1, as stated: a run in which no interrupt poll is true and no scroll times
   out yields exactly min(itemCount, maxRow * cols) times and returns Finished. *)
C1_Original ==
    (Done /\ ~Disturbed) =>
        /\ result = "Finished"
        /\ yields = Min(cfg.item_count, cfg.max_row * cfg.col)

(* C1, amended: such a run (with working devices) yields exactly
   min(itemCount, max(maxRow, 1) * cols) times and returns Finished, and no run
   yields more than that. *)
C1_CleanRunYields ==
    /\ yields <= ExpectedYields
    /\ (Done /\ ~Disturbed) => (result = "Finished" /\ yields = ExpectedYields)

\* scenario 1: rows = 4, cols = 5, itemCount = 20, no scroll, 20 yields, (0,0)..(3,4)
C1_Witness ==
    /\ Finished
    /\ cfg.row = 4 /\ cfg.col = 5 /\ cfg.item_count = 20
    /\ yields = 20 /\ obs.last_cell = <<3, 4>> /\ ~obs.wheel /\ obs.scroll_arg = 0

\* (r1, c1) before (r2, c2) in row-major order
LexLess(a, b) == a[1] < b[1] \/ (a[1] = b[1] /\ a[2] < b[2])

(* C2: cells are emitted in row-major order of the list. The k-th yield (from 0)
   is for the clicked cell, which is list item k (the list having scrolled by
   the rows asked for) in column k mod cols; on one screen the clicked cells
   increase lexicographically; the first cell after a scroll is (start_row, 0). *)
C2_RowMajorOrder ==
    /\ pc = "yield" =>
         /\ obs.last_cell = <<row, col>>
         /\ obs.item = yields - 1
         /\ col = (yields - 1) % cfg.col
    /\ obs.screen_clicks >= 2 => LexLess(obs.prev_cell, obs.last_cell)
    /\ (pc \in {"wait", "yield"} /\ obs.screen_clicks = 1 /\ obs.list_top > 0) =>
         obs.last_cell = <<cfg.row - obs.scroll_arg, 0>>
    /\ (pc \in {"wait", "yield"} /\ obs.screen_clicks = 1 /\ obs.list_top = 0) =>
         obs.last_cell = <<0, 0>>

\* a yield on the second screen of a grid of several rows and columns
C2_Witness ==
    /\ pc = "yield"
    /\ cfg.row = 4 /\ cfg.col = 5 /\ cfg.item_count = 27
    /\ obs.list_top = 2 /\ obs.last_cell = <<3, 1>> /\ yields = 27

\* no wait of the run has returned Ok (each Ok adds a positive time to the average)
NoSwitchSeen == ~cfg.is_cloud /\ avg_switch_time = Zero

(* C3: a timeout of wait_until_switched does not abort the walk. The cell whose
   wait timed out is yielded, as the next item of the list; no run ends because
   of a switch timeout; and a run in which no wait ever succeeded, not stopped
   by an interrupt, a device failure or the row limit, still yields itemCount
   times and returns Finished. *)
C3_TimeoutStillYields ==
    /\ (pc = "yield" /\ obs.wait_result = "timeout") =>
         /\ result = "none"
         /\ obs.adv_clicks = 1
         /\ obs.item = yields - 1
    /\ pc = "wait" => result = "none"
    /\ obs.cause # "switch_timeout"
    /\ (Done /\ ~Disturbed /\ NoSwitchSeen /\ cfg.max_row * cfg.col >= cfg.item_count) =>
         /\ result = "Finished"
         /\ yields = cfg.item_count

\* a finished run of two items whose last wait ran to the time limit
C3_Witness ==
    /\ Finished /\ NoSwitchSeen
    /\ cfg.max_wait = 2 /\ elapsed = cfg.max_wait
    /\ cfg.item_count = 2 /\ yields = 2

(* C4 as stated: at every yield, wait_until_switched has returned success for
   the clicked cell or the cloud delay has elapsed. *)
C4_Original ==
    pc = "yield" => obs.wait_result \in {"ok", "cloud"}

(* C4: a yield is emitted only after the one click of the advance and after
   wait_until_switched has returned for that cell: with the cloud delay exactly
   in cloud mode, with success (a changed capture followed by an equal one,
   within the limit), with a timeout only once maxWaitSwitchItem has elapsed,
   or with a capture error. Only the success return has observed the panel
   stable. *)
C4_YieldAfterWait ==
    pc = "yield" =>
      /\ obs.adv_clicks = 1 /\ obs.adv_waits = 1
      /\ obs.wait_result \in {"ok", "cloud", "timeout", "capture"}
      /\ (obs.wait_result = "cloud") <=> cfg.is_cloud
      /\ obs.wait_result = "ok" => (diff_flag /\ 2 <= elapsed /\ cfg.max_wait >= 2)
      /\ obs.wait_result = "timeout" => elapsed >= cfg.max_wait
      /\ obs.wait_result = "capture" => elapsed < cfg.max_wait

\* a yield after a wait that ran to a positive limit without seeing any change
C4_Witness ==
    /\ pc = "yield" /\ obs.wait_result = "timeout"
    /\ cfg.max_wait = 2 /\ elapsed = 2 /\ ~diff_flag

(* C5: in the bootstrap phase, when the flag strip never changes, the
   single-row scroll gives up with TimeLimitExceeded after exactly 25 wheel
   ticks, and the run returns Err with no click and no yield in that advance. *)
C5_TimeoutAfter25Ticks ==
    (Done /\ obs.cause = "scroll_timeout" /\ scrolled_rows < bootstrap_rows /\ state = 0) =>
      /\ result = "Err"
      /\ count = max_scroll
      /\ obs.call_ticks = max_scroll
      /\ obs.adv_clicks = 0 /\ obs.adv_waits = 0

(* C6: an interrupt seen after the k-th yield ends the run on the next advance.
   A poll that sees the interrupt returns Interrupted at once; when it is the
   poll of the walk no cell has been clicked and nothing has been waited for or
   yielded in that advance, and the controller's scanned_count is k, the number
   of yields so far. Every click, wait and yield of an advance comes after a
   poll of that advance that saw no interrupt, and an advance after a yield
   that ends without polling has either completed the run with all its yields
   or returned Interrupted. *)
C6_InterruptAfterYield ==
    /\ obs.rmb_seen => (Done /\ result = "Interrupted" /\ obs.cause = "poll")
    /\ (Done /\ obs.cause = "poll") =>
         /\ obs.adv_clicks = 0 /\ obs.adv_waits = 0
         /\ self_scanned_count = yields
         /\ scanned_count = yields
         /\ obs.clicks = yields
    /\ pc \in {"wait", "yield"} => (obs.adv_polls >= 1 /\ ~obs.rmb_seen)
    /\ obs.adv_clicks <= obs.adv_polls
    /\ (Done /\ obs.adv_polls = 0 /\ yields > 0) =>
         \/ result = "Finished" /\ yields = ExpectedYields
         \/ result = "Interrupted"

\* the interrupt is seen by the poll of the walk after 13 yields
C6_Witness ==
    /\ Done /\ result = "Interrupted"
    /\ obs.rmb_seen /\ obs.poll_at = "walk"
    /\ yields = 13 /\ self_scanned_count = 13 /\ obs.last_cell = <<2, 2>>

\* wheel ticks scroll_one_row has sent after `n` turns of its loop
TicksOfTurns(n) == IF cfg.platform = "windows" THEN n ELSE 0

(* C7: an interrupt seen by the poll of scroll_one_row, during the single-row
   scrolls of scroll_rows, ends the run at that loop head: the run returns
   Interrupted, no wheel tick follows the poll (the ticks of the call are those
   of its completed turns), and no cell is clicked and nothing is yielded in
   that advance. While the single-row scroll runs, no click has been made in
   the advance. *)
C7_InterruptDuringScroll ==
    /\ (obs.rmb_seen /\ obs.poll_at = "scroll") =>
         /\ Done /\ result = "Interrupted"
         /\ count < max_scroll
         /\ obs.call_ticks = TicksOfTurns(count)
         /\ obs.adv_clicks = 0 /\ obs.adv_waits = 0
         /\ obs.clicks = yields
    /\ pc = "scroll" => (obs.adv_clicks = 0 /\ obs.adv_waits = 0 /\ ~obs.rmb_seen)

\* the interrupt is seen in the middle of a row, after two ticks
C7_Witness ==
    /\ Done /\ result = "Interrupted"
    /\ obs.rmb_seen /\ obs.poll_at = "scroll"
    /\ state = 1 /\ count = 2 /\ obs.call_ticks = 2 /\ yields > 0

(* C8: with item_count = 0 the run ends in its first advance without a yield:
   the loop is never entered, so no interrupt poll, no click of the walk and no
   wheel tick happens; when the initial move, click and flag sample succeed the
   run returns Finished having clicked once, on (0,0), and sampled the flag
   once (otherwise the failed call panics). *)
C8_EmptyList ==
    cfg.item_count = 0 =>
      /\ pc \in {"start", "done"}
      /\ yields = 0 /\ obs.clicks = 0 /\ obs.adv_polls = 0
      /\ ~obs.wheel /\ obs.last_cell = NoCell
      /\ Done => \/ /\ result = "Finished" /\ obs.cause = "none"
                    /\ obs.init_clicks = 1 /\ obs.flag_writes = 1
                    /\ initial_flag \in Strips
                 \/ /\ result = "Panic" /\ obs.cause \in {"input", "capture"}
                    /\ obs.flag_writes = 0

\* an empty list, finished after the initial click and sample
C8_Witness ==
    /\ cfg.item_count = 0 /\ Finished
    /\ obs.init_clicks = 1 /\ obs.flag_writes = 1 /\ initial_flag = <<Grey, Dark>>

\* the scenario of the specification: a 4 x 5 screen and 27 items
Scenario27 == cfg.row = 4 /\ cfg.col = 5 /\ cfg.item_count = 27

(* C9: at the end of a screen the controller scrolls
   scroll_row = min(ceil((item_count - scanned_count) / cols), rows) rows and
   resumes at visible row start_row = rows - scroll_row; a row of the walk
   ends after its last column or with the list, and a run that walks the
   whole list ends on the last cell of the last row, which has
   item_count mod cols cells (cols when the remainder is 0). With rows = 4,
   cols = 5, item_count = 27: the scroll comes after 20 yields, is of 2 rows,
   start_row is 2, and the 7 further yields are for (2,0) .. (3,1), the cells
   before (3,2); 27 in all. *)
C9_ScrollAndLastRow ==
    /\ pc \in {"scroll", "align"} =>
         /\ scanned_count = yields
         /\ obs.scroll_arg =
              Min(CeilDiv(cfg.item_count - scanned_count, cfg.col), cfg.row)
         /\ start_row = cfg.row - obs.scroll_arg
         /\ rows_left <= obs.scroll_arg
    /\ (pc \in {"wait", "yield"} /\ obs.list_top > 0) =>
         (row >= cfg.row - obs.scroll_arg /\ row < cfg.row)
    /\ (pc = "screen_end" \/ (Done /\ obs.cause = "max_row")) =>
         (col = cfg.col - 1 \/ scanned_count = cfg.item_count)
    /\ (Finished /\ yields = cfg.item_count /\ yields > 0) =>
         obs.last_cell[2] + 1 =
           (IF cfg.item_count % cfg.col = 0 THEN cfg.col ELSE cfg.item_count % cfg.col)
    /\ Scenario27 =>
         /\ pc = "scroll" => (yields = 20 /\ obs.scroll_arg = 2 /\ start_row = 2)
         /\ (pc \in {"wait", "yield"} /\ obs.clicks > 20) =>
              (obs.list_top = 2 /\ LexLess(<<1, 4>>, obs.last_cell)
                                /\ LexLess(obs.last_cell, <<3, 2>>))
         /\ (Done /\ ~Disturbed) =>
              (result = "Finished" /\ yields = 27 /\ obs.last_cell = <<3, 1>>)

\* the last of the 27 yields, on the second screen
C9_Witness ==
    /\ Scenario27 /\ pc = "yield" /\ yields = 27
    /\ obs.scroll_arg = 2 /\ start_row = 2 /\ scanned_row = 5
    /\ row = 3 /\ col = 1 /\ scrolled_rows = 2

(* C10: when the count of scanned rows reaches max_row the walk stops at the
   end of that row and the run returns Finished: the stop comes in the advance
   that ends the row, before any poll, click or wheel tick of that advance, and
   with the row walked to its last column (or to the end of the list). While
   the run goes on, fewer than max_row rows have been scanned (none, when
   max_row is 0), so no cell of a later row is clicked and no scroll is issued
   once the limit is reached. *)
C10_MaxRowStops ==
    /\ obs.cause = "max_row" =>
         /\ Done /\ result = "Finished"
         /\ scanned_row = Max(cfg.max_row, 1)
         /\ obs.adv_polls = 0 /\ obs.adv_clicks = 0 /\ ~obs.adv_wheel
         /\ obs.clicks = yields
         /\ (col = cfg.col - 1 \/ scanned_count = cfg.item_count)
    /\ (scanned_row > 0 /\ scanned_row >= cfg.max_row) => obs.cause = "max_row"
    /\ pc \in {"poll", "wait", "yield", "screen_end", "scroll", "align"} =>
         scanned_row < Max(cfg.max_row, 1)
    /\ yields <= Max(cfg.max_row, 1) * cfg.col

\* the walk stops after the first of two visible rows, with items left
C10_Witness ==
    /\ Finished /\ obs.cause = "max_row"
    /\ cfg.row = 2 /\ cfg.col = 2 /\ cfg.max_row = 1 /\ cfg.item_count = 4
    /\ scanned_row = 1 /\ yields = 2 /\ obs.last_cell = <<0, 1>>

(* C11: the controller's scanned_count never exceeds item_count, and when it
   equals item_count every item has been yielded. *)
C11_CountBounded ==
    /\ self_scanned_count <= cfg.item_count
    /\ scanned_count <= cfg.item_count
    /\ self_scanned_count = cfg.item_count => yields = cfg.item_count

\* the count reaches item_count inside the wait on the last cell, at its yield
C11_Witness ==
    /\ pc = "yield" /\ obs.wait_result = "ok"
    /\ cfg.item_count = 2 /\ self_scanned_count = 2 /\ scanned_count = 1 /\ yields = 2

(* C12: in every reachable state, suspension points included, the controller's
   scanned_count equals the number of yields emitted so far. *)
C12_CountEqualsYields ==
    self_scanned_count = yields

\* a step that assigns a new value to initial_flag
FlagWritten == initial_flag' # initial_flag

(* C13: initial_flag is written once in a run, by the sample taken in the first
   advance after the click on (0,0) and before any cell of the walk is clicked
   or yielded, and no later step changes it: every run that gets past its first
   advance without a panic of the initial move, click or sample has written it
   exactly once, with the captured strip. *)
C13_FlagWrittenOnce ==
    /\ [](/\ obs.flag_writes <= 1
          /\ obs.flag_writes = 1 => (obs.init_clicks = 1 /\ initial_flag \in Strips)
          /\ (pc # "start" /\ result # "Panic") => obs.flag_writes = 1
          /\ obs.clicks > 0 => obs.flag_writes = 1)
    /\ [][/\ FlagWritten =>
               /\ pc = "start" /\ yields = 0 /\ obs.clicks = 0
               /\ obs.flag_writes = 0 /\ obs'.flag_writes = 1
          /\ obs'.flag_writes # obs.flag_writes => FlagWritten]_vars

\* a finished run that went through single-row scrolls, batch scrolls and alignment
C13_Witness ==
    /\ Finished /\ cfg.platform = "windows"
    /\ scrolled_rows >= bootstrap_rows /\ obs.align_ticks > 0 /\ obs.list_top = 6
    /\ obs.flag_writes = 1 /\ initial_flag = <<Light, Dark>>

\* the step ends the scan with an error outcome (an Err result, or a panic)
EndsInError == pc' = "done" /\ result' \in {"Err", "Panic"}

(* C15: a capture failure while the flag strip is sampled (in the initial
   sample, in a single-row scroll, in the row alignment) ends the scan with an
   error instead of being taken as an observation of the strip. *)
C15_FlagCaptureFailureEndsScan ==
    /\ pc = "start"  => ~ENABLED (StartStep("none", CaptureError) /\ ~EndsInError)
    /\ pc = "scroll" => ~ENABLED (ScrollOneRowStep(FALSE, CaptureError) /\ ~EndsInError)
    /\ pc = "align"  => ~ENABLED (AlignRowStep(CaptureError, "none") /\ ~EndsInError)

\* the input calls of a step that can fail on the platform of the run
Failing(calls) == InputFailure(calls) \ {"none"}

(* C16: a failure of the input driver (move, click, wheel scroll) is fatal and
   surfaced: the step in which it happens ends the scan with an error outcome,
   and a run ended by a failed wheel scroll has an error outcome. *)
C16_InputFailureIsFatal ==
    /\ pc = "start" => \A fail \in Failing({"move", "click"}), cap \in FlagCaptures :
                         ~ENABLED (StartStep(fail, cap) /\ ~EndsInError)
    /\ pc = "poll"  => \A fail \in Failing({"move", "click"}) :
                         ~ENABLED (PollStep(FALSE, fail) /\ ~EndsInError)
    /\ pc = "align" => \A fail \in Failing({"scroll"}), cap \in FlagCaptures :
                         ~ENABLED (AlignRowStep(cap, fail) /\ ~EndsInError)
    /\ obs.cause = "scroll_input" => result \in {"Err", "Panic"}

\* mouse clicks of the advance that is under way or has just suspended: those
\* of the walk and, in the first advance, the initial click on (0,0)
AdvanceClicks ==
    obs.adv_clicks + (IF yields = 0 \/ (pc = "yield" /\ yields = 1)
                      THEN obs.init_clicks ELSE 0)

(* C17 as stated: every advance that ends in a yield has performed exactly one
   mouse click and one wait_until_switched call. *)
C17_Original ==
    pc = "yield" => (AdvanceClicks = 1 /\ obs.adv_waits = 1)

(* C17: every advance that ends in a yield has clicked exactly one cell of the
   walk and called wait_until_switched exactly once before suspending; the
   first advance has clicked twice, once in the initial click on (0,0) and once
   in the walk. The routine suspends only there: each suspension is one yield,
   made by the step that ends the wait on the clicked cell. *)
C17_OneClickOneWait ==
    /\ [](pc = "yield" =>
            /\ obs.adv_clicks = 1 /\ obs.adv_waits = 1
            /\ AdvanceClicks = (IF yields = 1 THEN 2 ELSE 1)
            /\ obs.clicks = yields)
    /\ [][/\ yields' # yields => (pc \in {"poll", "wait"} /\ pc' = "yield"
                                   /\ yields' = yields + 1)
          /\ (pc' = "yield" /\ pc # "yield") => yields' = yields + 1
          /\ pc = "yield" => (pc' # "yield" /\ yields' = yields)]_vars

\* the first yield of a run, after the initial click and the click of the walk
C17_Witness ==
    /\ pc = "yield" /\ yields = 1 /\ obs.wait_result = "ok"
    /\ obs.init_clicks = 1 /\ obs.adv_clicks = 1 /\ AdvanceClicks = 2

\* a step of scroll_one_row that returns Success
RowScrolled == pc = "scroll" /\ scrolled_rows' = scrolled_rows + 1

\* wheel ticks the call has issued when the turn under way is over
IssuedThisCall == obs.call_ticks + TicksOfTurns(1)

(* C18: scroll_one_row goes from state 0 to state 1 on a changed strip and
   returns Success in state 1 on a matching strip, at the first such tick; any
   other observation changes nothing but the tick counter; and the tick count
   recorded at Success is the number of wheel ticks issued in the call. *)
C18_RowDetector ==
    [][pc = "scroll" =>
         /\ RowScrolled => /\ state = 1
                           /\ avg_scroll_one_row' =
                                update_avg_row(avg_scroll_one_row, scrolled_rows,
                                               IssuedThisCall)[1]
         /\ (state = 0 /\ ~RowScrolled /\ pc' = "scroll") =>
               (state' \in {0, 1} /\ count' = count + 1)
         /\ (state = 1 /\ ~RowScrolled /\ pc' = "scroll") =>
               (state' = 1 /\ count' = count + 1)
         /\ ~RowScrolled => UNCHANGED <<scrolled_rows, avg_scroll_one_row>>]_vars

(* C19: on every platform each turn of the loop of scroll_one_row sends one
   wheel tick, so the ticks sent by a call equal its tick counter. *)
C19_TickPerIteration ==
    (pc = "scroll" \/ (Done /\ obs.poll_at = "scroll")) => obs.call_ticks = count

(* C20: scrolled_rows never decreases, and avg_scroll_one_row is the arithmetic
   mean of the tick counts of the successful single-row scrolls so far:
   avg_scroll_one_row * scrolled_rows is the sum of those counts (the average
   is taken exactly, as a fraction). *)
C20_AverageIsMean ==
    /\ [](/\ avg_scroll_one_row[1] * scrolled_rows = obs.row_ticks * avg_scroll_one_row[2]
          /\ scrolled_rows = 0 => avg_scroll_one_row = Zero
          /\ scrolled_rows > 0 => obs.row_ticks >= 2 * scrolled_rows)
    /\ [][/\ scrolled_rows' >= scrolled_rows
          /\ scrolled_rows' # scrolled_rows =>
               /\ pc = "scroll" /\ scrolled_rows' = scrolled_rows + 1
               /\ obs'.row_ticks = obs.row_ticks + count + 1]_vars

\* three rows scrolled with 2, 2 and 3 ticks in some order: the mean is 7/3
C20_Witness ==
    /\ scrolled_rows = 3 /\ obs.row_ticks = 7 /\ avg_scroll_one_row = <<7, 3>>

\* the steps as seen by one who knows only the captured frames and the results
\* of the interrupt poll
StartSeen(cap)   == \E fail \in InputFailure({"move", "click"}) : StartStep(fail, cap)
PollSeen(rmb)    == \E fail \in InputFailure({"move", "click"}) : PollStep(rmb, fail)
WaitPollSeen(cap) == \E tick \in ClockTicks : WaitPollStep(cap, tick)
AlignRowSeen(cap) == \E fail \in InputFailure({"scroll"}) : AlignRowStep(cap, fail)

\* what a run shows: whether it has ended and how, the yields, the clicks and
\* the wheel ticks
Outcome == <<pc = "done", result, yields, obs.clicks, obs.init_clicks, obs.last_cell,
             obs.call_ticks, obs.batch_ticks, obs.align_ticks>>

(* C14 as stated: from the same state, a step fed with the same captured frame
   and the same interrupt-poll result shows the same outcome (so that runs with
   the same item_count, configuration, frames and poll results show the same
   cells, input events and result). *)
C14_Original ==
    [][/\ \A cap \in FlagCaptures :
            StartSeen(cap) => \A w \in {Outcome'} : ~ENABLED (StartSeen(cap) /\ Outcome' # w)
       /\ \A rmb \in BOOLEAN :
            PollSeen(rmb) => \A w \in {Outcome'} : ~ENABLED (PollSeen(rmb) /\ Outcome' # w)
       /\ \A cap \in PoolCaptures :
            WaitPollSeen(cap) =>
              \A w \in {Outcome'} : ~ENABLED (WaitPollSeen(cap) /\ Outcome' # w)
       /\ Resume => \A w \in {Outcome'} : ~ENABLED (Resume /\ Outcome' # w)
       /\ ScrollRows => \A w \in {Outcome'} : ~ENABLED (ScrollRows /\ Outcome' # w)
       /\ \A rmb \in BOOLEAN, cap \in FlagCaptures :
            ScrollOneRowStep(rmb, cap) =>
              \A w \in {Outcome'} : ~ENABLED (ScrollOneRowStep(rmb, cap) /\ Outcome' # w)
       /\ \A cap \in FlagCaptures :
            AlignRowSeen(cap) =>
              \A w \in {Outcome'} : ~ENABLED (AlignRowSeen(cap) /\ Outcome' # w)]_vars

(* C14: the scan is deterministic in what it reads from outside: from the same
   state, a step fed with the same captured frame, interrupt-poll result,
   input-driver result and clock reading has one successor state only. So two
   runs with the same item_count and configuration and the same sequences of
   frames, poll results, driver results and elapsed times go through the same
   states, and show the same cells, input events and result. *)
C14_Deterministic ==
    [][/\ \A fail \in InputFailure({"move", "click"}), cap \in FlagCaptures :
            StartStep(fail, cap) =>
              \A w \in {vars'} : ~ENABLED (StartStep(fail, cap) /\ vars' # w)
       /\ \A rmb \in BOOLEAN, fail \in InputFailure({"move", "click"}) :
            PollStep(rmb, fail) =>
              \A w \in {vars'} : ~ENABLED (PollStep(rmb, fail) /\ vars' # w)
       /\ \A cap \in PoolCaptures, tick \in ClockTicks :
            WaitPollStep(cap, tick) =>
              \A w \in {vars'} : ~ENABLED (WaitPollStep(cap, tick) /\ vars' # w)
       /\ Resume => \A w \in {vars'} : ~ENABLED (Resume /\ vars' # w)
       /\ \A fail_at \in BatchFailPoints :
            ScrollRowsStep(fail_at) =>
              \A w \in {vars'} : ~ENABLED (ScrollRowsStep(fail_at) /\ vars' # w)
       /\ \A rmb \in BOOLEAN, cap \in FlagCaptures :
            ScrollOneRowStep(rmb, cap) =>
              \A w \in {vars'} : ~ENABLED (ScrollOneRowStep(rmb, cap) /\ vars' # w)
       /\ \A cap \in FlagCaptures, fail \in InputFailure({"scroll"}) :
            AlignRowStep(cap, fail) =>
              \A w \in {vars'} : ~ENABLED (AlignRowStep(cap, fail) /\ vars' # w)]_vars

\* a switch detected at a time that depends on the clock: two readings, of 1 and 2
C14_Witness ==
    /\ pc = "yield" /\ obs.wait_result = "ok"
    /\ cfg.max_wait = 2 /\ elapsed = 3 /\ yields = 2

(* C21: scrolled_rows is the number of rows the list has been scrolled since
   the start of the run, whenever no scroll_rows call is in progress, whether
   the rows were scrolled one by one or by a batch. *)
C21_ScrolledRowsIsListTop ==
    pc \notin {"scroll", "align"} => scrolled_rows = obs.list_top

\* scroll_rows computes estimate_scroll_length in this step
EstimateComputed == pc = "screen_end" /\ (pc' = "align" \/ obs'.cause = "scroll_input")

(* C22: estimate_scroll_length is computed only with scrolled_rows >= 5, the
   batch and align_row run only then, and each of the first five rows of a run
   is scrolled by a successful scroll_one_row call. *)
C22_BootstrapFirst ==
    /\ [](pc = "align" => scrolled_rows >= bootstrap_rows)
    /\ [][/\ EstimateComputed => scrolled_rows >= bootstrap_rows
          /\ (obs.list_top < bootstrap_rows /\ obs'.list_top # obs.list_top) =>
                /\ RowScrolled
                /\ obs'.list_top = obs.list_top + 1
                /\ scrolled_rows' = obs'.list_top]_vars

\* the first batch: five rows scrolled one by one, then an estimate of a wheel tick
C22_Witness ==
    /\ pc = "align" /\ obs.list_top = bootstrap_rows
    /\ scrolled_rows = bootstrap_rows /\ obs.batch_ticks > 0

\* t = max(0, round(x)) for the rational x = num / den, halves away from zero
IsClampedRound(t, num, den) ==
    IF t = 0 THEN 2 * num < den
    ELSE t > 0 /\ 2 * t * den - den <= 2 * num /\ 2 * num < 2 * t * den + den

\* every row scrolled so far took exactly seven turns of scroll_one_row
SevenTickRows == scrolled_rows = bootstrap_rows /\ obs.row_ticks = 7 * bootstrap_rows

(* C23: when scroll_rows(k) reaches align_row, the batch has sent exactly
   max(0, round(avg_scroll_one_row * k - 3)) wheel ticks; after five rows of
   seven ticks each the average is 7 and the batch is max(0, 7k - 3) ticks. *)
C23_BatchLength ==
    pc = "align" =>
      /\ IsClampedRound(obs.batch_ticks,
                        avg_scroll_one_row[1] * obs.scroll_arg
                          - undershoot * avg_scroll_one_row[2],
                        avg_scroll_one_row[2])
      /\ SevenTickRows =>
           /\ avg_scroll_one_row = <<7, 1>>
           /\ obs.batch_ticks = Max(0, 7 * obs.scroll_arg - 3)

\* five rows of seven ticks, then scroll_rows(2): eleven ticks before align_row
C23_Witness ==
    /\ pc = "align" /\ SevenTickRows
    /\ obs.scroll_arg = 2 /\ obs.batch_ticks = 11

(* C24: align_row makes at most 10 attempts; an attempt checks the flag strip
   once, sends one wheel tick only when the check is not a match, and the first
   attempt whose check is a match ends the call without a tick. *)
C24_AlignAtMostTen ==
    /\ [](pc = "align" => attempt < 10 /\ obs.align_ticks <= attempt)
    /\ [](attempt <= 10)
    /\ [][\A cap \in FlagCaptures :
            AlignRowSeen(cap) =>
              /\ obs'.align_ticks \in {obs.align_ticks, obs.align_ticks + 1}
              /\ obs'.align_ticks # obs.align_ticks => check_flag(initial_flag, cap) = "Err"
              /\ check_flag(initial_flag, cap) = "Ok" =>
                    /\ pc' # "align"
                    /\ attempt' = attempt
                    /\ obs'.align_ticks = obs.align_ticks
              /\ check_flag(initial_flag, cap) = "Err" =>
                    /\ attempt' = attempt + 1
                    /\ pc' = "align" <=> attempt + 1 < 10]_vars

\* ten attempts, none of them a match: ten ticks, and the walk goes on
C24_Witness ==
    /\ pc \in {"poll", "screen_end"}
    /\ attempt = 10 /\ obs.align_ticks = 10

\* some scanline of the strip is at a distance below 10 from the reference
SomeRowBelowTen(reference, strip) ==
    \E y \in 1..Len(reference) :
       Abs(reference[y][1] - strip[y][1]) + Abs(reference[y][2] - strip[y][2])
         + Abs(reference[y][3] - strip[y][3]) < 10

(* C25 (under FlagSpec): on a captured strip check_flag returns Ok exactly when
   some scanline y of the strip is at a colour distance strictly below 10 from
   scanline y of the reference, and Err exactly when every scanline is at a
   distance of 10 or more. *)
C25_MatchIffSomeRow ==
    [][\A strip \in FlagSamples(Len(initial_flag)) :
         CheckFlagStep(Captured(strip)) =>
           /\ result' = "Ok" <=> SomeRowBelowTen(initial_flag, strip)
           /\ result' = "Err" <=> ~SomeRowBelowTen(initial_flag, strip)]_vars

\* a reference of three scanlines reported as changed: every strip that shows
\* it has its third scanline at 10 or more from Grey (Dim is at 1, Dark at 9)
C25_Witness ==
    /\ pc = "checked" /\ result = "Err"
    /\ initial_flag = <<Dark, Dark, Grey>>

(* C26 (under FlagSpec): check_flag is reflexive: whatever the sample stored
   in initial_flag, of any height, a capture that returns the same sample is
   reported as a match. *)
C26_Reflexive ==
    pc = "check_flag" =>
      /\ ENABLED CheckFlagStep(Captured(initial_flag))
      /\ ~ENABLED (CheckFlagStep(Captured(initial_flag)) /\ result' # "Ok")

\* a one-scanline reference that only its own colour matches, reported as a match
C26_Witness ==
    /\ pc = "checked" /\ result = "Ok"
    /\ initial_flag = <<Light>>

(* C27: outside cloud mode, a polled sample that differs from the stored pool
   scalar is stored and remembered as a difference, and the wait goes on; the
   wait returns success at a polled sample exactly when that sample equals the
   stored scalar and a difference was seen earlier in the same wait. One equal
   sample is enough, and no success comes without a difference. *)
C27_TwoPhaseSwitch ==
    /\ [](obs.wait_result = "ok" => diff_flag /\ ~cfg.is_cloud)
    /\ [][\A cap \in PoolCaptures :
            (WaitPollSeen(cap) /\ ~TimedOut /\ ~cap.err) =>
              /\ calc_pool(cap.img) # pool =>
                    /\ pc' = "wait" /\ diff_flag' /\ pool' = calc_pool(cap.img)
              /\ obs'.wait_result = "ok" <=> (diff_flag /\ calc_pool(cap.img) = pool)
              /\ (~diff_flag /\ calc_pool(cap.img) = pool) =>
                    pc' = "wait" /\ ~diff_flag' /\ pool' = pool]_vars
    /\ [][pc = "poll" /\ pc' = "wait" => ~diff_flag']_vars

\* a difference at the first sample, the same value at the second: success
C27_Witness ==
    /\ pc = "yield" /\ obs.wait_result = "ok"
    /\ diff_flag /\ elapsed = 2 /\ pool = 1

(* C28: avg_switch_time is the arithmetic mean of the elapsed times of the
   switches detected so far in the run, whatever the mix of detections and
   timeouts. *)
C28_AverageOfSwitches ==
    obs.switches > 0 => avg_switch_time = Rat(obs.switch_ms, obs.switches)

(* C29: in cloud mode wait_until_switched never enters its polling loop (no
   capture of pool_rect): the step that clicks a cell returns from the wait
   with success and leaves pool, avg_switch_time and scanned_count as they
   were. *)
C29_CloudBypass ==
    /\ [](cfg.is_cloud => /\ pc # "wait" /\ obs.switches = 0
                          /\ pool = 0 /\ avg_switch_time = Zero
                          /\ obs.wait_result \in {"none", "cloud"})
    /\ [][(cfg.is_cloud /\ obs'.adv_waits = obs.adv_waits + 1) =>
            /\ pc = "poll" /\ pc' = "yield"
            /\ obs'.wait_result = "cloud"
            /\ UNCHANGED <<pool, avg_switch_time, self_scanned_count>>]_vars

\* the second cell of a cloud run, yielded straight after its click
C29_Witness ==
    /\ cfg.is_cloud /\ pc = "yield" /\ obs.wait_result = "cloud"
    /\ yields = 2 /\ obs.adv_waits = 1 /\ self_scanned_count = 1

(* C30: once max_wait_switch_item has elapsed without a switch detected (also
   when it is 0, and when every sample differed from the one before), the next
   test of the loop makes wait_until_switched return the timeout error; a wait
   that ends so has changed neither scanned_count nor avg_switch_time. *)
C30_TimeoutLeavesAverage ==
    /\ []((pc = "wait" /\ elapsed >= cfg.max_wait) =>
            /\ ENABLED WaitPoll
            /\ ~ENABLED (WaitPoll /\ obs'.wait_result # "timeout"))
    /\ [](obs.wait_result = "timeout" =>
            /\ elapsed >= cfg.max_wait
            /\ self_scanned_count = scanned_count)
    /\ [][(pc = "wait" /\ obs'.wait_result # "ok") =>
            UNCHANGED <<avg_switch_time, self_scanned_count>>]_vars
    /\ [][(pc = "poll" /\ pc' = "wait") => self_scanned_count = scanned_count]_vars

\* a panel whose two samples both differ from the one before, then the limit
C30_Witness ==
    /\ pc = "yield" /\ obs.wait_result = "timeout"
    /\ diff_flag /\ pool = 0 /\ yields = 1 /\ cfg.max_wait = 2

\* a step of scroll_rows(k), k >= 1: its entry, a turn of scroll_one_row or of align_row
InScrollRows ==
    \/ pc = "screen_end" /\ obs'.scroll_arg >= 1
    \/ pc \in {"scroll", "align"} /\ obs.scroll_arg >= 1

\* the step sends at least one wheel event
WheelSentInStep ==
    \/ pc = "screen_end" /\ obs'.batch_ticks > 0
    \/ pc = "scroll" /\ obs'.call_ticks = obs.call_ticks + 1
    \/ pc = "scroll" /\ RowScrolled /\ cfg.platform = "windows"
    \/ pc = "align" /\ obs'.align_ticks = obs.align_ticks + 1

\* scroll_rows returns in this step with something other than Interrupt
ReturnsNotInterrupt ==
    /\ pc' \notin {"scroll", "align"}
    /\ ~(pc' = "done" /\ result' = "Interrupted")

\* the step polled the interrupt source and found it false
PolledFalse == obs'.adv_polls = obs.adv_polls + 1 /\ ~obs'.rmb_seen

(* C31: every loop of scroll_rows polls the interrupt: a step of scroll_rows
   that sends a wheel tick, or that returns anything but Interrupt, has polled
   the interrupt and found it false; so with the interrupt held from the entry
   on, no tick is sent and the call returns Interrupt. *)
C31_ScrollLoopsPoll ==
    [][(InScrollRows /\ (WheelSentInStep \/ ReturnsNotInterrupt)) => PolledFalse]_vars

\* v is the exact value num / 4 truncated towards zero
IsTruncatedQuarter(v, num) ==
    IF num >= 0 THEN 4 * v <= num /\ num < 4 * v + 4
    ELSE 4 * v - 4 < num /\ num <= 4 * v

(* C32: at every yield (and during the wait before it) the latest cursor
   target is the centre of the cell (row, col) of the loop indices:
   x = origin.x + margin.x + (gap.width + size.width) * col + size.width / 2,
   y = origin.y + margin.y + (gap.height + size.height) * row + size.height / 2,
   each truncated to an integer; it is a function of the geometry and the
   indices alone. *)
C32_CursorAtCellCentre ==
    pc \in {"wait", "yield"} =>
      LET g == cfg.geom IN
      /\ obs.last_cell = <<row, col>>
      /\ IsTruncatedQuarter(obs.cursor[1],
            2 * g.ox + 2 * g.mx + 2 * (g.gw + g.sw) * col + g.sw)
      /\ IsTruncatedQuarter(obs.cursor[2],
            2 * g.oy + 2 * g.my + 2 * (g.gh + g.sh) * row + g.sh)

\* cell (1, 0) of a window at origin (-30.5, -20): the centre (-26.75, -11.25)
\* is truncated towards zero
C32_Witness ==
    /\ pc = "yield" /\ row = 1 /\ col = 0
    /\ cfg.geom = Geometry(<<-61, -40>>, <<3, 5>>, <<1, 2>>, <<9, 7>>)
    /\ obs.cursor = <<-26, -11>>

\* every item has been yielded and the coroutine has been, or is being, resumed
AfterLastYield ==
    /\ cfg.item_count > 0 /\ yields = cfg.item_count
    /\ pc \in {"yield", "screen_end", "scroll", "align"}

(* C33: once every item has been yielded, the resumed coroutine sends no input
   event (no cursor move, no click, no wheel tick) and returns Finished. *)
C33_QuietAfterLastYield ==
    /\ [][AfterLastYield =>
            /\ obs'.clicks = obs.clicks
            /\ obs'.cursor = obs.cursor
            /\ ~WheelSentInStep]_vars
    /\ []((Done /\ cfg.item_count > 0 /\ yields = cfg.item_count) => result = "Finished")

(* C34: the run returns Interrupted only when an interrupt poll returned true:
   the latest poll of a run that ended Interrupted was true, and the run ended
   at that poll. *)
C34_InterruptedOnlyOnPoll ==
    (Done /\ result = "Interrupted") => (obs.rmb_seen /\ obs.cause = "poll")

(* C35 as stated: once scrolled_rows >= 5 on a non-mac platform the scan cannot
   end with the scroll-timeout error. *)
C35_Original ==
    (Done /\ obs.cause = "scroll_timeout") =>
       (cfg.platform = "macos" \/ scrolled_rows < bootstrap_rows)

(* C35, amended: a scroll_rows call entered with scrolled_rows >= 5 on a
   non-mac platform takes the batch path and never returns TimeLimitExceeded:
   when align_row has used its 10 attempts the walk goes on, and the call ends
   the run only when a wheel tick of the batch fails (Interrupted). A
   scroll-timeout error comes only from a call entered with scrolled_rows < 5
   (or on macos). *)
C35_BatchNeverTimesOut ==
    /\ [][(pc = "screen_end" /\ cfg.platform # "macos" /\ scrolled_rows >= 5) =>
            /\ pc' \in {"align", "done"}
            /\ pc' = "done" => (result' = "Interrupted" /\ obs'.cause = "scroll_input")]_vars
    /\ [][pc = "align" =>
            /\ pc' \in {"align", "poll", "screen_end", "done"}
            /\ pc' = "done" => result' = "Finished"
            /\ attempt' = 10 => pc' # "align"]_vars
    /\ []((Done /\ obs.cause = "scroll_timeout") =>
            /\ result = "Err"
            /\ cfg.platform = "macos" \/ obs.entry_rows < 5)

\* ten attempts of align_row without a match after a batch of wheel ticks, and
\* the coroutine is at the next cell
C35_Witness ==
    /\ pc = "poll" /\ attempt = 10 /\ obs.align_ticks = 10
    /\ obs.batch_ticks > 0 /\ obs.entry_rows >= 5 /\ cfg.platform # "macos"

(* C36: a successful scroll_one_row records a count between 2 and 25: it never
   succeeds on its first turn, nor in state 0; and a strip that matches the
   reference after every tick keeps the call in state 0 until the 25th turn
   returns TimeLimitExceeded. *)
C36_SuccessTakesTwoTicks ==
    /\ [][RowScrolled =>
            /\ state = 1 /\ count >= 1
            /\ obs'.row_ticks - obs.row_ticks = count + 1
            /\ count + 1 \in 2..25]_vars
    /\ []((pc = "scroll" /\ state = 0) =>
            /\ ENABLED ScrollOneRowStep(FALSE, Captured(initial_flag))
            /\ ~ENABLED (ScrollOneRowStep(FALSE, Captured(initial_flag)) /\ state' # 0)
            /\ ~ENABLED (ScrollOneRowStep(FALSE, Captured(initial_flag)) /\
                           (pc' = "done" /\ result' = "Err") # (count = 24)))
    /\ [](pc = "scroll" => count <= 24)

\* the strip matched after each of 25 ticks: the call never left state 0
C36_Witness ==
    /\ Done /\ obs.cause = "scroll_timeout" /\ result = "Err"
    /\ state = 0 /\ count = 25 /\ cfg.platform = "windows" /\ obs.call_ticks = 25

\* the coroutine is inside an advance: neither suspended nor returned
Advancing == pc \notin {"yield", "done"}

(* C37 (under FairSpec): every advance terminates: the first advance reaches a
   yield or returns, a resumed coroutine reaches its next yield or returns, the
   loops of an advance are bounded (25 turns of scroll_one_row, 10 of
   align_row, the time limit of the switch wait), and the run ends, having
   yielded at most item_count times. *)
C37_AdvancesTerminate ==
    /\ [](yields <= cfg.item_count)
    /\ [](count <= 25 /\ attempt <= 10)
    /\ [](pc = "wait" => elapsed < cfg.max_wait + MaxTick)
    /\ Advancing ~> ~Advancing
    /\ <>Done

\* a run that used every loop: polling waits to the time limit, and it finished
C37_Witness ==
    /\ Finished /\ yields = cfg.item_count /\ cfg.item_count = 2
    /\ ~cfg.is_cloud /\ elapsed >= cfg.max_wait /\ cfg.max_wait = 2

\* the positions of list v that hold position i of the slice
PlacesOf(v, i) == { k \in 1..Len(v) : v[k] = i }

\* positions of v are in input order
InInputOrder(v) == \A j, k \in 1..Len(v) : j < k => v[j] < v[k]

RECURSIVE SumOfLengths(_, _)
SumOfLengths(lists, fs) ==
    IF fs = {} THEN 0
    ELSE LET f == CHOOSE x \in fs : TRUE
         IN Len(lists[f]) + SumOfLengths(lists, fs \ {f})

(* C38: March7thFormat::new partitions its input by slot: every relic of the
   input slice is in exactly one of the six lists, once, namely the list of its
   slot (head, hands, body, feet, sphere for PlanarSphere, rope for LinkRope);
   each list keeps the input order; the six lengths sum to the input length. *)
C38_PartitionBySlot ==
    pc = "built" =>
        /\ \A i \in 1..Len(cfg.results) : \A f \in FormatLists :
               Cardinality(PlacesOf(result.lists[f], i)) =
                   IF \/ f = "head"   /\ cfg.results[i].slot = "Head"
                      \/ f = "hands"  /\ cfg.results[i].slot = "Hands"
                      \/ f = "body"   /\ cfg.results[i].slot = "Body"
                      \/ f = "feet"   /\ cfg.results[i].slot = "Feet"
                      \/ f = "sphere" /\ cfg.results[i].slot = "PlanarSphere"
                      \/ f = "rope"   /\ cfg.results[i].slot = "LinkRope"
                   THEN 1 ELSE 0
        /\ \A f \in FormatLists :
               /\ InInputOrder(result.lists[f])
               /\ \A k \in 1..Len(result.lists[f]) :
                      result.lists[f][k] \in 1..Len(cfg.results)
        /\ SumOfLengths(result.lists, FormatLists) = Len(cfg.results)

\* a sphere between two ropes: rope = [1st, 3rd], sphere = [2nd], the rest empty
C38_Witness ==
    /\ pc = "built"
    /\ Len(cfg.results) = 3
    /\ cfg.results[1].slot = "LinkRope"
    /\ cfg.results[2].slot = "PlanarSphere"
    /\ cfg.results[3].slot = "LinkRope"
    /\ result.lists["rope"] = <<1, 3>>
    /\ result.lists["sphere"] = <<2>>
    /\ result.lists["head"] = <<>>

====
